---- MODULE Spec2Model ----
(***************************************************************************)
(* Base64 File Converter (src/base64converter.py).                         *)
(*                                                                         *)
(* The program is a script: its module-level imports run first, then the   *)
(* __main__ block either installs pyperclip or creates the form and runs   *)
(* the Tk main loop.  Inside the main loop the four button handlers        *)
(* (browse_file, convert_file, copy_to_clipboard, save_base64) run one at  *)
(* a time, each to completion.                                             *)
(*                                                                         *)
(* Text is a sequence of one-character strings, file content and the       *)
(* result of base64.b64encode are sequences of byte values 0..255, a path  *)
(* is the sequence of its components, the empty string is <<>>.            *)
(***************************************************************************)
EXTENDS Integers, Sequences, FiniteSets

VARIABLES
    pc,           \* position of the script: "import", "main", "mainloop", "exit", "crashed"
    pyperclip,    \* whether the pyperclip package is importable when the script starts
    pip_ran,      \* whether the pip install subprocess was run
    stdout,       \* the lines printed so far
    file_path,    \* self.file_path (tk.StringVar)
    current_b64,  \* self.current_b64
    convert_btn,  \* state of self.convert_btn
    copy_btn,     \* state of self.copy_btn
    save_btn,     \* state of self.save_btn
    output_text,  \* content of self.output_text
    status,       \* text of self.status
    clipboard,    \* the system clipboard
    fs,           \* the file system: path -> bytes, or Missing
    messagebox,   \* title of the error box the last handler showed, <<>> if none
    event,        \* history: the last handler that ran and how it ended
    converted,    \* history: some conversion has completed without error
    last_data     \* history: the bytes read by the last conversion that completed

vars == << pc, pyperclip, pip_ran, stdout, file_path, current_b64, convert_btn,
           copy_btn, save_btn, output_text, status, clipboard, fs, messagebox,
           event, converted, last_data >>

form == << file_path, current_b64, convert_btn, copy_btn, save_btn, output_text,
           status, clipboard, fs, messagebox, event, converted, last_data >>

(***************************************************************************)
(* Bounds of the model.                                                    *)
(***************************************************************************)
MaxLen == 2           \* longest content of the file that exists at start
MaxSaveLen == 4       \* longest text the user saves to a file

ByteVals == {0, 77, 255}

RECURSIVE SeqsUpTo(_, _)
SeqsUpTo(S, n) ==
    IF n = 0 THEN {<<>>}
    ELSE LET shorter == SeqsUpTo(S, n - 1)
         IN  shorter \cup {Append(s, x) : s \in {t \in shorter : Len(t) = n - 1}, x \in S}

PathA == <<"home", "a.bin">>
PathB == <<"home", "b.txt">>
PathC == <<"tmp", "out.txt">>
Paths == {PathA, PathB, PathC}

\* the paths the user names in the save dialog
SavePaths == {PathA, PathC}

Missing == <<-1>>    \* no file at this path

(***************************************************************************)
(* Characters and bytes.                                                   *)
(***************************************************************************)
B64Alphabet ==
    << "A", "B", "C", "D", "E", "F", "G", "H", "I", "J", "K", "L", "M",
       "N", "O", "P", "Q", "R", "S", "T", "U", "V", "W", "X", "Y", "Z",
       "a", "b", "c", "d", "e", "f", "g", "h", "i", "j", "k", "l", "m",
       "n", "o", "p", "q", "r", "s", "t", "u", "v", "w", "x", "y", "z",
       "0", "1", "2", "3", "4", "5", "6", "7", "8", "9", "+", "/" >>

PadChar == "="

\* ASCII code of the alphabet character with 6-bit value v, as b64encode emits it
B64Byte(v) ==
    IF v < 26 THEN 65 + v
    ELSE IF v < 52 THEN 97 + (v - 26)
    ELSE IF v < 62 THEN 48 + (v - 52)
    ELSE IF v = 62 THEN 43
    ELSE 47

\* bytes.decode("utf-8") on one ASCII byte of Base64 output
CharOfByte ==
    [c \in {B64Byte(v) : v \in 0..63} \cup {61} |->
        IF c = 61 THEN PadChar
        ELSE B64Alphabet[(CHOOSE v \in 0..63 : B64Byte(v) = c) + 1]]

\* str written with encoding="utf-8": one ASCII character to its byte
ByteOfChar ==
    [ch \in {B64Alphabet[i] : i \in 1..64} \cup {PadChar} |->
        CHOOSE c \in DOMAIN CharOfByte : CharOfByte[c] = ch]

decode_utf8(bytes) == [i \in 1..Len(bytes) |-> CharOfByte[bytes[i]]]

encode_utf8(text) == [i \in 1..Len(text) |-> ByteOfChar[text[i]]]

(***************************************************************************)
(* base64.b64encode: three bytes to four alphabet characters, the last     *)
(* group padded with "=".                                                  *)
(***************************************************************************)
\* b64encode with the "=" padding left out
RECURSIVE b64encode_nopad(_)
b64encode_nopad(data) ==
    IF Len(data) = 0 THEN <<>>
    ELSE IF Len(data) = 1 THEN
        << B64Byte(data[1] \div 4), B64Byte((data[1] % 4) * 16) >>
    ELSE IF Len(data) = 2 THEN
        << B64Byte(data[1] \div 4),
           B64Byte((data[1] % 4) * 16 + data[2] \div 16),
           B64Byte((data[2] % 16) * 4) >>
    ELSE
        << B64Byte(data[1] \div 4),
           B64Byte((data[1] % 4) * 16 + data[2] \div 16),
           B64Byte((data[2] % 16) * 4 + data[3] \div 64),
           B64Byte(data[3] % 64) >> \o b64encode_nopad(SubSeq(data, 4, Len(data)))

RECURSIVE b64encode(_)
b64encode(data) ==
    IF Len(data) = 0 THEN <<>>
    ELSE IF Len(data) = 1 THEN
        << B64Byte(data[1] \div 4), B64Byte((data[1] % 4) * 16), 61, 61 >>
    ELSE IF Len(data) = 2 THEN
        << B64Byte(data[1] \div 4),
           B64Byte((data[1] % 4) * 16 + data[2] \div 16),
           B64Byte((data[2] % 16) * 4), 61 >>
    ELSE
        << B64Byte(data[1] \div 4),
           B64Byte((data[1] % 4) * 16 + data[2] \div 16),
           B64Byte((data[2] % 16) * 4 + data[3] \div 64),
           B64Byte(data[3] % 64) >> \o b64encode(SubSeq(data, 4, Len(data)))

\* f"{len(data) / 1024:.1f}": <<integer part, first decimal>>, rounded half to even
FormatKB(n) ==
    LET q == (n * 10) \div 1024
        r == (n * 10) % 1024
        t == IF r > 512 \/ (r = 512 /\ q % 2 = 1) THEN q + 1 ELSE q
    IN  << t \div 10, t % 10 >>

basename(path) == path[Len(path)]

\* the delete left out
TextDelete_kept(text) == text

\* self.output_text.delete(1.0, tk.END)
TextDelete(text) == <<>>

\* self.output_text.insert(1.0, s)
TextInsert(text, s) == s \o text

\* history record of a handler run: the handler, the path its dialog returned
\* (<<>> if cancelled or no dialog), how its file access went ("none" if it made
\* none), how it ended, and the dialog it opened
Ev(op, path, io, outcome, dialog) ==
    [op |-> op, path |-> path, io |-> io, outcome |-> outcome, dialog |-> dialog]

(***************************************************************************)
(* Start of the script.                                                    *)
(***************************************************************************)
Init ==
    /\ pc = "import"
    /\ pyperclip \in BOOLEAN
    /\ pip_ran = FALSE
    /\ stdout = <<>>
    /\ file_path = <<>>
    /\ current_b64 = <<>>
    /\ convert_btn = "absent"
    /\ copy_btn = "absent"
    /\ save_btn = "absent"
    /\ output_text = <<>>
    /\ status = <<>>
    /\ clipboard = <<"?">>
    /\ \E content \in SeqsUpTo(ByteVals, MaxLen) :
          fs = [p \in Paths |->
                  IF p = PathA THEN content
                  ELSE IF p = PathB THEN <<77, 97, 110>>
                  ELSE Missing]
    /\ messagebox = <<>>
    /\ event = Ev("none", <<>>, "none", "none", "none")
    /\ converted = FALSE
    /\ last_data = <<>>

\* the imports at the top of the module; a failing import ends the script
ModuleImports ==
    /\ pc = "import"
    /\ pc' = IF pyperclip THEN "main" ELSE "crashed"
    /\ UNCHANGED << pyperclip, pip_ran, stdout >>
    /\ UNCHANGED form

\* Base64ConverterApp.__init__ and setup_ui
NewApp ==
    /\ file_path' = <<>>
    /\ current_b64' = <<>>
    /\ convert_btn' = "disabled"
    /\ copy_btn' = "disabled"
    /\ save_btn' = "disabled"
    /\ output_text' = <<>>
    /\ status' = <<"Select a file to begin">>
    /\ UNCHANGED << clipboard, fs, messagebox, event, converted, last_data >>

\* the __main__ block
MainBlock ==
    /\ pc = "main"
    /\ IF pyperclip
       THEN /\ NewApp
            /\ pc' = "mainloop"
            /\ UNCHANGED << pip_ran, stdout >>
       ELSE /\ \E pip_ok \in BOOLEAN :
                 /\ pip_ran' = TRUE
                 /\ stdout' = << "Installing required package: pyperclip" >> \o
                        (IF pip_ok
                         THEN << "pyperclip installed. Please run the script again." >>
                         ELSE <<>>)
                 /\ pc' = IF pip_ok THEN "exit" ELSE "crashed"
            /\ UNCHANGED form
    /\ UNCHANGED pyperclip

(***************************************************************************)
(* The handlers.                                                           *)
(***************************************************************************)
\* browse_file without the test of the dialog's result
browse_file_unguarded(chosen) ==
    /\ file_path' = chosen
    /\ convert_btn' = "normal"
    /\ status' = << "Ready: ", IF chosen = <<>> THEN "" ELSE basename(chosen) >>
    /\ event' = Ev("browse", chosen, "none", IF chosen = <<>> THEN "cancel" ELSE "ok", "open")
    /\ messagebox' = <<>>
    /\ UNCHANGED << current_b64, copy_btn, save_btn, output_text, clipboard, fs,
                    converted, last_data >>

browse_file(chosen) ==
    /\ IF chosen # <<>>
       THEN /\ file_path' = chosen
            /\ convert_btn' = "normal"
            /\ status' = << "Ready: ", basename(chosen) >>
            /\ event' = Ev("browse", chosen, "none", "ok", "open")
       ELSE /\ UNCHANGED << file_path, convert_btn, status >>
            /\ event' = Ev("browse", <<>>, "none", "cancel", "open")
    /\ messagebox' = <<>>
    /\ UNCHANGED << current_b64, copy_btn, save_btn, output_text, clipboard, fs,
                    converted, last_data >>

\* convert_file enabling the buttons before the file is read
convert_file_enable_first(read_ok) ==
    LET data == fs[file_path]
    IN  /\ copy_btn' = "normal"
        /\ save_btn' = "normal"
        /\ IF read_ok /\ data # Missing
           THEN /\ current_b64' = decode_utf8(b64encode(data))
                /\ output_text' = TextInsert(TextDelete(output_text), current_b64')
                /\ status' = << "Converted: ", FormatKB(Len(data)), " KB -> ",
                                Len(current_b64'), " characters" >>
                /\ messagebox' = <<>>
                /\ event' = Ev("convert", file_path, "ok", "ok", "none")
                /\ converted' = TRUE
                /\ last_data' = data
           ELSE /\ messagebox' = << "Conversion Error" >>
                /\ event' = Ev("convert", file_path, "fail", "fail", "none")
                /\ UNCHANGED << current_b64, output_text, status, converted, last_data >>
        /\ UNCHANGED << file_path, convert_btn, clipboard, fs >>

\* convert_file clearing the stored text and the display before the file is read
convert_file_clear_first(read_ok) ==
    LET data == fs[file_path]
    IN  /\ IF read_ok /\ data # Missing
           THEN /\ current_b64' = decode_utf8(b64encode(data))
                /\ output_text' = TextInsert(TextDelete(output_text), current_b64')
                /\ copy_btn' = "normal"
                /\ save_btn' = "normal"
                /\ status' = << "Converted: ", FormatKB(Len(data)), " KB -> ",
                                Len(current_b64'), " characters" >>
                /\ messagebox' = <<>>
                /\ event' = Ev("convert", file_path, "ok", "ok", "none")
                /\ converted' = TRUE
                /\ last_data' = data
           ELSE /\ current_b64' = <<>>
                /\ output_text' = <<>>
                /\ messagebox' = << "Conversion Error" >>
                /\ event' = Ev("convert", file_path, "fail", "fail", "none")
                /\ UNCHANGED << copy_btn, save_btn, status, converted, last_data >>
        /\ UNCHANGED << file_path, convert_btn, clipboard, fs >>

convert_file(read_ok) ==
    LET data == fs[file_path]
    IN  /\ IF read_ok /\ data # Missing
           THEN /\ current_b64' = decode_utf8(b64encode(data))
                /\ output_text' = TextInsert(TextDelete(output_text), current_b64')
                /\ copy_btn' = "normal"
                /\ save_btn' = "normal"
                /\ status' = << "Converted: ", FormatKB(Len(data)), " KB -> ",
                                Len(current_b64'), " characters" >>
                /\ messagebox' = <<>>
                /\ event' = Ev("convert", file_path, "ok", "ok", "none")
                /\ converted' = TRUE
                /\ last_data' = data
           ELSE /\ messagebox' = << "Conversion Error" >>
                /\ event' = Ev("convert", file_path, "fail", "fail", "none")
                /\ UNCHANGED << current_b64, output_text, copy_btn, save_btn, status,
                                converted, last_data >>
        /\ UNCHANGED << file_path, convert_btn, clipboard, fs >>

\* copy_to_clipboard without the test of the stored text
copy_to_clipboard_unguarded ==
    /\ clipboard' = current_b64
    /\ status' = << "Copied to clipboard!" >>
    /\ event' = Ev("copy", <<>>, "none", "ok", "none")
    /\ messagebox' = <<>>
    /\ UNCHANGED << file_path, current_b64, convert_btn, copy_btn, save_btn,
                    output_text, fs, converted, last_data >>

copy_to_clipboard ==
    /\ IF current_b64 # <<>>
       THEN /\ clipboard' = current_b64
            /\ status' = << "Copied to clipboard!" >>
            /\ event' = Ev("copy", <<>>, "none", "ok", "none")
       ELSE /\ UNCHANGED << clipboard, status >>
            /\ event' = Ev("copy", <<>>, "none", "noop", "none")
    /\ messagebox' = <<>>
    /\ UNCHANGED << file_path, current_b64, convert_btn, copy_btn, save_btn,
                    output_text, fs, converted, last_data >>

\* save_base64 forgetting the stored text once it is written
save_base64_forgets(save_path, io) ==
    /\ IF current_b64 = <<>>
       THEN /\ event' = Ev("save", <<>>, "none", "noop", "none")
            /\ messagebox' = <<>>
            /\ UNCHANGED << fs, status, current_b64 >>
       ELSE IF save_path = <<>>
       THEN /\ event' = Ev("save", <<>>, "none", "cancel", "save")
            /\ messagebox' = <<>>
            /\ UNCHANGED << fs, status, current_b64 >>
       ELSE IF io = "ok"
       THEN /\ fs' = [fs EXCEPT ![save_path] = encode_utf8(current_b64)]
            /\ status' = << "Saved: ", basename(save_path) >>
            /\ event' = Ev("save", save_path, "ok", "ok", "save")
            /\ messagebox' = <<>>
            /\ current_b64' = <<>>
       ELSE /\ fs' = IF io = "write" THEN [fs EXCEPT ![save_path] = <<>>] ELSE fs
            /\ messagebox' = << "Save Error" >>
            /\ event' = Ev("save", save_path, io, "fail", "save")
            /\ UNCHANGED << status, current_b64 >>
    /\ UNCHANGED << file_path, convert_btn, copy_btn, save_btn,
                    output_text, clipboard, converted, last_data >>

\* io: "ok", "open" (open() raises) or "write" (f.write or the close raises after
\* open() has truncated the file; the text fits in the write buffer, so nothing
\* of it has reached the file)
save_base64(save_path, io) ==
    /\ IF current_b64 = <<>>
       THEN /\ event' = Ev("save", <<>>, "none", "noop", "none")
            /\ messagebox' = <<>>
            /\ UNCHANGED << fs, status >>
       ELSE IF save_path = <<>>
       THEN /\ event' = Ev("save", <<>>, "none", "cancel", "save")
            /\ messagebox' = <<>>
            /\ UNCHANGED << fs, status >>
       ELSE IF io = "ok"
       THEN /\ fs' = [fs EXCEPT ![save_path] = encode_utf8(current_b64)]
            /\ status' = << "Saved: ", basename(save_path) >>
            /\ event' = Ev("save", save_path, "ok", "ok", "save")
            /\ messagebox' = <<>>
       ELSE /\ fs' = IF io = "write" THEN [fs EXCEPT ![save_path] = <<>>] ELSE fs
            /\ messagebox' = << "Save Error" >>
            /\ event' = Ev("save", save_path, io, "fail", "save")
            /\ UNCHANGED status
    /\ UNCHANGED << file_path, current_b64, convert_btn, copy_btn, save_btn,
                    output_text, clipboard, converted, last_data >>

(***************************************************************************)
(* The main loop: one press of an enabled button at a time.                *)
(***************************************************************************)
script == << pc, pyperclip, pip_ran, stdout >>

BrowseFile ==
    /\ pc = "mainloop"
    /\ \E chosen \in {<<>>} \cup {p \in Paths : fs[p] # Missing} : browse_file(chosen)
    /\ UNCHANGED script

ConvertFile ==
    /\ pc = "mainloop"
    /\ convert_btn = "normal"
    /\ \E read_ok \in BOOLEAN : convert_file(read_ok)
    /\ UNCHANGED script

CopyToClipboard ==
    /\ pc = "mainloop"
    /\ copy_btn = "normal"
    /\ copy_to_clipboard
    /\ UNCHANGED script

SaveBase64 ==
    /\ pc = "mainloop"
    /\ save_btn = "normal"
    /\ Len(current_b64) <= MaxSaveLen
    /\ \E save_path \in {<<>>} \cup SavePaths, io \in {"ok", "open", "write"} :
          save_base64(save_path, io)
    /\ UNCHANGED script

Next ==
    \/ ModuleImports
    \/ MainBlock
    \/ BrowseFile
    \/ ConvertFile
    \/ CopyToClipboard
    \/ SaveBase64

Spec == Init /\ [][Next]_vars

(***************************************************************************)
(* What it is for a text to be the Base64 encoding of some bytes, stated   *)
(* by decoding: the text is whole groups of four characters, "=" only pads *)
(* the last group, the bits a padded group leaves unused are zero, and the *)
(* groups decode to the bytes.                                             *)
(***************************************************************************)
B64Value(ch) == (CHOOSE i \in 1..64 : B64Alphabet[i] = ch) - 1

IsB64Char(ch) == \E i \in 1..64 : B64Alphabet[i] = ch

RECURSIVE B64Decode(_)
B64Decode(text) ==
    IF Len(text) = 0 THEN <<>>
    ELSE LET v1 == B64Value(text[1])
             v2 == B64Value(text[2])
         IN  IF text[3] = PadChar THEN << v1 * 4 + v2 \div 16 >>
             ELSE LET v3 == B64Value(text[3])
                  IN  IF text[4] = PadChar
                      THEN << v1 * 4 + v2 \div 16, (v2 % 16) * 16 + v3 \div 4 >>
                      ELSE << v1 * 4 + v2 \div 16, (v2 % 16) * 16 + v3 \div 4,
                              (v3 % 4) * 64 + B64Value(text[4]) >>
                           \o B64Decode(SubSeq(text, 5, Len(text)))

WellFormedB64(text) ==
    LET n == Len(text)
    IN  /\ n % 4 = 0
        /\ \A i \in 1..n :
              \/ IsB64Char(text[i])
              \/ /\ text[i] = PadChar
                 /\ i >= n - 1
                 /\ text[n] = PadChar
        /\ n > 0 /\ text[n] = PadChar =>
              IF text[n - 1] = PadChar
              THEN B64Value(text[n - 2]) % 16 = 0
              ELSE B64Value(text[n - 1]) % 4 = 0

IsBase64Of(text, data) == WellFormedB64(text) /\ B64Decode(text) = data

Running == pc = "mainloop"

\* the last step was a run of handler op
Ran(op) == event'.op = op

\* C1: the stored encoded text is empty or is the valid Base64 encoding of the
\* bytes read by the most recent conversion that completed
C1_StoredTextValid ==
    current_b64 = <<>> \/ (converted /\ IsBase64Of(current_b64, last_data))

\* C1 witness: a save has failed while a non-empty text of a two-byte file is stored
C1_Witness ==
    /\ event.op = "save" /\ event.outcome = "fail"
    /\ Len(last_data) = 2
    /\ current_b64 # <<>>

\* C2: convert is disabled when the form opens and is enabled only by a browse
\* that returns a path; such a browse sets the path field to that path and
\* enables convert, so convert enabled implies a non-empty path field; a
\* cancelled browse leaves path field, convert control and status unchanged
C2_State ==
    /\ Running /\ event.op = "none" => convert_btn = "disabled"
    /\ event.op = "browse" /\ event.path # <<>> =>
          file_path = event.path /\ convert_btn = "normal"
    /\ convert_btn = "normal" => file_path # <<>>

C2_Step ==
    /\ convert_btn # "normal" /\ convert_btn' = "normal" =>
          Ran("browse") /\ event'.path # <<>>
    /\ Ran("browse") /\ event'.path = <<>> =>
          UNCHANGED << file_path, convert_btn, status >>

C2_BrowseEnablesConvert == [] C2_State /\ [][C2_Step]_vars

\* C2 witness: a browse was cancelled after a file had been selected
C2_Witness ==
    /\ event.op = "browse" /\ event.path = <<>>
    /\ convert_btn = "normal"

\* C3: copy and save are disabled until a conversion completes without error;
\* right after such a conversion the display holds exactly the encoded text of
\* the file just read and copy and save are enabled
C3_ConvertEnablesCopySave ==
    /\ Running /\ ~converted => copy_btn = "disabled" /\ save_btn = "disabled"
    /\ event.op = "convert" /\ event.outcome = "ok" =>
          /\ IsBase64Of(output_text, fs[file_path])
          /\ output_text = current_b64
          /\ copy_btn = "normal"
          /\ save_btn = "normal"

\* C3 witness: a conversion of a non-empty file has just completed
C3_Witness ==
    /\ event.op = "convert" /\ event.outcome = "ok"
    /\ output_text # <<>>
    /\ copy_btn = "normal"

\* C4 as stated: after every invocation of convert the stored text and the
\* display are the encoding of the file at the selected path
C4_AsStated ==
    event.op = "convert" =>
        /\ IsBase64Of(current_b64, fs[file_path])
        /\ output_text = current_b64

\* C4: after every invocation of convert that completes without error the
\* stored text and the display are exactly the encoding of the file at the
\* selected path, nothing of an earlier conversion remaining
C4_ReplacedWholesale ==
    event.op = "convert" /\ event.outcome = "ok" =>
        /\ IsBase64Of(current_b64, fs[file_path])
        /\ output_text = current_b64

\* C4 witness: a conversion has completed while the clipboard still holds the
\* different, non-empty text of an earlier conversion
C4_Witness ==
    /\ event.op = "convert" /\ event.outcome = "ok"
    /\ clipboard # <<"?">>
    /\ clipboard # current_b64
    /\ current_b64 # <<>>

\* C5: copy and save change neither the stored text, the display, the path
\* field nor any control's state; copy changes only clipboard and status, save
\* only the chosen file and the status, a cancelled save dialog nothing
C5_Step ==
    /\ Ran("copy") \/ Ran("save") =>
          UNCHANGED << current_b64, output_text, file_path, convert_btn, copy_btn,
                       save_btn, converted, last_data >>
    /\ Ran("copy") => UNCHANGED fs
    /\ Ran("save") =>
          /\ UNCHANGED clipboard
          /\ \A p \in Paths : p # event'.path => fs'[p] = fs[p]
    /\ Ran("save") /\ event'.dialog = "save" /\ event'.path = <<>> =>
          UNCHANGED << status, fs, clipboard >>

C5_CopySaveFrame == [][C5_Step]_vars

\* C5 witness: a save has written the stored text after a copy of the same text
C5_Witness ==
    /\ event.op = "save" /\ event.outcome = "ok"
    /\ clipboard = current_b64
    /\ fs[event.path] = encode_utf8(current_b64)

\* C6: a failing read in convert shows an error box and leaves stored text,
\* display, status and the copy and save controls as they were; a failing
\* save shows an error box and leaves stored text and status as they were
C6_Step ==
    /\ Ran("convert") /\ event'.io = "fail" =>
          /\ messagebox' = << "Conversion Error" >>
          /\ UNCHANGED << current_b64, output_text, status, copy_btn, save_btn >>
    /\ Ran("save") /\ event'.io \in {"open", "write"} =>
          /\ messagebox' = << "Save Error" >>
          /\ UNCHANGED << current_b64, status >>

C6_FailureKeepsState == [][C6_Step]_vars

\* C6 witness: a read has failed while the text of an earlier conversion is stored
C6_Witness ==
    /\ event.op = "convert" /\ event.io = "fail"
    /\ messagebox = << "Conversion Error" >>
    /\ current_b64 # <<>>
    /\ output_text = current_b64

\* C7: the clipboard and the files change only by copy and save after a
\* conversion has completed, and what is written is the stored text, which is
\* then non-empty; with an empty stored text copy leaves clipboard and status
\* alone and save opens no dialog and writes no file
C7_Step ==
    /\ clipboard' # clipboard =>
          /\ Ran("copy")
          /\ converted
          /\ current_b64 # <<>>
          /\ clipboard' = current_b64
    /\ fs' # fs =>
          /\ Ran("save")
          /\ converted
          /\ current_b64 # <<>>
          /\ event'.io = "ok" => fs'[event'.path] = encode_utf8(current_b64)
    /\ Ran("copy") /\ current_b64 = <<>> => UNCHANGED << clipboard, status >>
    /\ Ran("save") /\ current_b64 = <<>> =>
          event'.dialog = "none" /\ UNCHANGED << fs, status >>

C7_EffectsFollowConversion == [][C7_Step]_vars

\* C7 witness: copy was pressed while the stored text, of a zero-byte file, is empty
C7_Witness ==
    /\ event.op = "copy" /\ event.outcome = "noop"
    /\ converted
    /\ current_b64 = <<>>

\* C8: once start-up is over, without pyperclip the install branch has run
\* (both lines printed, pip run, no form), with pyperclip the form runs
C8_StartupAsStated ==
    pc \in {"mainloop", "exit", "crashed"} =>
        IF pyperclip
        THEN pc = "mainloop"
        ELSE /\ pip_ran
             /\ stdout = << "Installing required package: pyperclip",
                            "pyperclip installed. Please run the script again." >>
             /\ pc # "mainloop"

\* C9: enabled copy and save controls imply a non-empty stored text
C9_EnabledImpliesNonEmpty ==
    copy_btn = "normal" /\ save_btn = "normal" => current_b64 # <<>>

====
